---- MODULE Spec2Model ----
(***************************************************************************)
(* Model of fast64_internal/z64/exporter/scene/actors.py: the builders of  *)
(* the transition-actor and entrance-actor tables of a scene               *)
(* (SceneTransitionActors.new, SceneEntranceActors.new), the serializer of *)
(* the transition table (TransitionActor.getEntryC, getC) and its parser   *)
(* (SceneTransitionActors.from_data).                                      *)
(*                                                                         *)
(* Python values are modelled as follows.  An Optional value is a sequence *)
(* of length at most one (None is the empty sequence).  A str that is cut  *)
(* at braces and commas is a sequence of atoms: the atoms "{", "}", ","    *)
(* and tokens, a token being a non-empty run of other characters.  A dict  *)
(* is the sequence of its (key, value) pairs in insertion order.  A raised *)
(* exception is a result record with status "error".                       *)
(***************************************************************************)
EXTENDS Integers, Sequences, FiniteSets, TLC

VARIABLES
    op,                 \* the operation under way: which of the four calls below
    children_recursive, \* sceneObj.children_recursive: the objects of the scene, in traversal order
    table,              \* what SceneEntranceActors.new / SceneTransitionActors.new returned or raised
    entries,            \* self.entries of the SceneTransitionActors that is serialized
    source,             \* getC().source, the emitted text
    raw_data,           \* the text handed to from_data
    not_zapd_assets,    \* from_data's flag
    parsed              \* what from_data returned or raised

vars == <<op, children_recursive, table, entries, source, raw_data, not_zapd_assets, parsed>>

(***************************************************************************)
(* Bounds of the model.                                                    *)
(***************************************************************************)
MaxEntrances == 3      \* entrance markers in a scene; spawn indices range over 0..MaxEntrances-1
MaxRoomIndex == 1      \* room indices range over 0..MaxRoomIndex
MaxTransitions == 2    \* transition markers in a scene
MaxEntries == 2        \* entries of a serialized transition table
MaxFields == 12        \* comma-separated fields of a parsed row

(***************************************************************************)
(* Python values.                                                          *)
(***************************************************************************)
None == <<>>
Some(v) == <<v>>
Get(o) == o[1]

Pending == [status |-> "pending"]
Raise(exc, msg) == [status |-> "error", exception |-> exc, error |-> msg]

SeqsUpTo(S, n) == UNION {[1..k -> S] : k \in 0..n}

\* getObjectList(allObjs, "EMPTY", emptyType), from object i of allObjs on: the
\* objects of that type and kind, in the order in which allObjs yields them.
RECURSIVE getObjectListFrom(_, _, _, _)
getObjectListFrom(allObjs, i, objectType, emptyType) ==
    IF i > Len(allObjs) THEN <<>>
    ELSE (IF allObjs[i].type = objectType /\ allObjs[i].ootEmptyType = emptyType
          THEN <<allObjs[i]>> ELSE <<>>)
         \o getObjectListFrom(allObjs, i + 1, objectType, emptyType)

getObjectList(allObjs, objectType, emptyType) ==
    getObjectListFrom(allObjs, 1, objectType, emptyType)

\* Utility.isCurrentHeaderValid(actorProp.headerSettings, headerIndex): the marker
\* records the answer for the header that is exported.
isCurrentHeaderValid(actorProp) == actorProp.headerValid

\* The soft skip condition of both builders (lines 67 and 191), negated.
IsExported(obj) == isCurrentHeaderValid(obj) /\ obj.actor_id # "None"

(***************************************************************************)
(* SceneEntranceActors.new                                                 *)
(***************************************************************************)
RoomIndices == 0..MaxRoomIndex
SpawnIndices == 0..(MaxEntrances - 1)

\* A room empty as an entrance marker refers to it: obj.ootRoomHeader.roomIndex.
TiedRooms == {[ootEmptyType |-> "Room", roomIndex |-> k] : k \in RoomIndices}

\* Entrance markers. Every exported marker is enumerated; of the skipped ones,
\* one per skip cause and tied-room state.
EntranceObjs ==
    {o \in [type : {"EMPTY"}, ootEmptyType : {"Entrance"},
            headerValid : BOOLEAN, actor_id : {"None", "ACTOR_PLAYER"},
            tiedRoom : {None} \cup {Some(r) : r \in TiedRooms},
            spawnIndex : SpawnIndices] :
        \/ o.headerValid /\ o.actor_id # "None"
        \/ ~o.headerValid /\ o.actor_id # "None" /\ o.tiedRoom = None
        \/ o.headerValid /\ o.actor_id = "None" /\ o.tiedRoom # None /\ Get(o.tiedRoom).roomIndex = 0}

\* dict operations
Keys(d) == [i \in 1..Len(d) |-> d[i][1]]
Values(d) == [i \in 1..Len(d) |-> d[i][2]]

\* A membership test that finds no key: a build without the check of line 217
InDict_Never(d, k) == FALSE

\* `key in d` (line 217)
InDict(d, k) == \E i \in 1..Len(d) : d[i][1] = k

\* d[key] = value
SetItem(d, k, v) ==
    IF \E i \in 1..Len(d) : d[i][1] = k
    THEN [i \in 1..Len(d) |-> IF d[i][1] = k THEN <<k, v>> ELSE d[i]]
    ELSE Append(d, <<k, v>>)

RECURSIVE InsertByKey(_, _)
InsertByKey(sorted, item) ==
    IF sorted = <<>> THEN <<item>>
    ELSE IF item[1] < sorted[1][1] THEN <<item>> \o sorted
    ELSE <<sorted[1]>> \o InsertByKey(Tail(sorted), item)

RECURSIVE SortedItemsFrom(_, _)
SortedItemsFrom(d, i) ==
    IF i = 0 THEN <<>> ELSE InsertByKey(SortedItemsFrom(d, i - 1), d[i])

\* The pairs left in insertion order: a build without the sort of line 222
SortedItems_Unsorted(d) == d

\* dict(sorted(entranceActorFromIndex.items())) (line 222): the keys are distinct,
\* so the pairs are ordered by key alone. Pairs of equal key keep their order.
SortedItems(d) == SortedItemsFrom(d, Len(d))

\* A build without the contiguity check of line 223
KeysAreRange_Unchecked(d) == TRUE

\* list(d.keys()) == list(range(len(d))) (line 223)
KeysAreRange(d) == Keys(d) = [i \in 1..Len(d) |-> i - 1]

\* The EntranceActor built from a marker (lines 193-215); the fields are those the
\* table's checks and getEntryC read.
NewEntranceActor(obj) ==
    [spawnIndex |-> obj.spawnIndex, roomIndex |-> Get(obj.tiedRoom).roomIndex]

\* The loop of lines 188-220 from marker i on, entranceActorFromIndex being d.
\* `at` is the marker at which an exception was raised.
RECURSIVE EntranceLoop(_, _, _)
EntranceLoop(actorObjList, i, d) ==
    IF i > Len(actorObjList) THEN [status |-> "collected", dict |-> d]
    ELSE LET obj == actorObjList[i] IN
         IF ~IsExported(obj) THEN EntranceLoop(actorObjList, i + 1, d)
         ELSE IF obj.tiedRoom = None
              THEN Raise("PluginError", "ERROR: Missing room empty object assigned to the entrance.")
                       @@ [at |-> i]
         ELSE IF ~InDict(d, obj.spawnIndex)
              THEN EntranceLoop(actorObjList, i + 1, SetItem(d, obj.spawnIndex, NewEntranceActor(obj)))
         ELSE Raise("PluginError", "ERROR: Repeated Spawn Index: " \o ToString(obj.spawnIndex))
                  @@ [at |-> i]

\* SceneEntranceActors.new(name, sceneObj, transform, headerIndex)
SceneEntranceActors_new(sceneObj_children) ==
    LET actorObjList == getObjectList(sceneObj_children, "EMPTY", "Entrance")
        loop == EntranceLoop(actorObjList, 1, <<>>)
    IN  IF loop.status = "error" THEN loop
        ELSE LET entranceActorFromIndex == SortedItems(loop.dict) IN
             IF ~KeysAreRange(entranceActorFromIndex)
             THEN Raise("PluginError", "ERROR: The spawn indices are not consecutive!")
                      @@ [at |-> Len(actorObjList) + 1]
             ELSE [status |-> "ok", entries |-> Values(entranceActorFromIndex)]

EntranceInit ==
    /\ op = "SceneEntranceActors.new"
    /\ children_recursive \in SeqsUpTo(EntranceObjs, MaxEntrances)
    /\ table = Pending
    /\ entries = <<>> /\ source = <<>> /\ raw_data = <<>>
    /\ not_zapd_assets = FALSE /\ parsed = Pending

EntranceNew ==
    /\ op = "SceneEntranceActors.new"
    /\ table = Pending
    /\ table' = SceneEntranceActors_new(children_recursive)
    /\ UNCHANGED <<op, children_recursive, entries, source, raw_data, not_zapd_assets, parsed>>

(***************************************************************************)
(* SceneTransitionActors.new                                               *)
(***************************************************************************)
RoomNames == {"RoomA", "RoomB"}

\* The two room empties of a scene. A room is parented to the scene or to the
\* other room. The order in which sceneObj.children_recursive yields the objects
\* is not fixed by the scene graph; the rooms being alike but for their names,
\* the scenes enumerated all yield RoomA before RoomB and the rooms before the
\* markers, and either room may contain the other.
RoomObj(name, parent, roomIndex) ==
    [name |-> name, type |-> "EMPTY", ootEmptyType |-> "Room",
     parent |-> parent, roomIndex |-> roomIndex]

RoomLayouts ==
    {<<RoomObj("RoomA", pa, ia), RoomObj("RoomB", pb, ib)>> :
        <<pa, pb, ia, ib>> \in
            {q \in {"Scene", "RoomA", "RoomB"} \X {"Scene", "RoomA", "RoomB"}
                   \X RoomIndices \X RoomIndices :
                /\ q[1] # "RoomA" /\ q[2] # "RoomB"
                /\ ~(q[1] = "RoomB" /\ q[2] = "RoomA")}}

\* The k-th transition marker of a scene; pos is the position that
\* Utility.getConvertedTransform yields for it, distinct for distinct markers.
TransitionObjs(k) ==
    {o \in [name : {"Transition" \o ToString(k)}, type : {"EMPTY"},
            ootEmptyType : {"Transition Actor"},
            parent : {"Scene"} \cup RoomNames,
            headerValid : BOOLEAN, actor_id : {"None", "ACTOR_EN_DOOR"},
            isRoomTransition : BOOLEAN,
            fromRoom : {None, Some("RoomA")}, toRoom : {None, Some("RoomB")},
            cameraTransitionFront : {"0xFF"}, cameraTransitionBack : {"0xFF"},
            pos : {<<k, 0, -k>>}, rot : {"DEG_TO_BINANG(90.000)"}, params : {"0x003F"}] :
        o.headerValid \/ o.actor_id # "None"}

TransitionLists ==
    UNION {{f \in [1..n -> UNION {TransitionObjs(k) : k \in 1..n}] :
                \A k \in 1..n : f[k] \in TransitionObjs(k)} : n \in 0..MaxTransitions}

\* The object of that name among allObjs (a reference to a Blender object).
ObjNamed(allObjs, name) ==
    allObjs[CHOOSE i \in 1..Len(allObjs) : allObjs[i].name = name]

\* Whether obj is in ancestor.children_recursive: the ancestor is on obj's parent chain.
RECURSIVE IsDescendant(_, _, _)
IsDescendant(allObjs, obj, ancestor) ==
    /\ obj.parent # "Scene"
    /\ \/ obj.parent = ancestor.name
       \/ IsDescendant(allObjs, ObjNamed(allObjs, obj.parent), ancestor)

\* obj.children_recursive of a room of the scene
ChildrenOf(allObjs, room) ==
    SelectSeq(allObjs, LAMBDA o : IsDescendant(allObjs, o, room))

\* The inner loop of lines 56-58: actorToRoom[childObj] = obj for the transition
\* markers among the children of room obj, from child j on.
RECURSIVE TieChildren(_, _, _, _)
TieChildren(actorToRoom, obj, childObjs, j) ==
    IF j > Len(childObjs) THEN actorToRoom
    ELSE LET childObj == childObjs[j] IN
         TieChildren(IF childObj.type = "EMPTY" /\ childObj.ootEmptyType = "Transition Actor"
                     THEN SetItem(actorToRoom, childObj.name, obj)
                     ELSE actorToRoom,
                     obj, childObjs, j + 1)

\* The loop of lines 55-58 over roomObjList, from room i on.
RECURSIVE ActorToRoomFrom(_, _, _, _)
ActorToRoomFrom(allObjs, roomObjList, i, actorToRoom) ==
    IF i > Len(roomObjList) THEN actorToRoom
    ELSE ActorToRoomFrom(allObjs, roomObjList, i + 1,
             TieChildren(actorToRoom, roomObjList[i], ChildrenOf(allObjs, roomObjList[i]), 1))

\* actorToRoom[key]
GetItem(d, k) == d[CHOOSE i \in 1..Len(d) : d[i][1] = k][2]

\* actorObjList.sort(key=...) (line 61): the keys are computed, and the markers
\* ordered by key, those of equal key staying in their order (the sort is stable).
SortByRoomIndex(actorObjList, actorToRoom) ==
    LET keyed == [i \in 1..Len(actorObjList) |->
                     <<GetItem(actorToRoom, actorObjList[i].name).roomIndex, actorObjList[i]>>]
    IN  Values(SortedItemsFrom(keyed, Len(keyed)))

\* The TransitionActor built from a marker (lines 69, 78-102). isRoomTransition
\* keeps the default of its field (line 20): no line of `new` assigns it.
NewTransitionActor(obj, fromIndex, toIndex) ==
    [name |-> "Door", id |-> obj.actor_id, pos |-> obj.pos, rot |-> obj.rot,
     params |-> obj.params, isRoomTransition |-> None,
     roomFrom |-> Some(fromIndex), cameraFront |-> obj.cameraTransitionFront,
     roomTo |-> Some(toIndex), cameraBack |-> obj.cameraTransitionBack]

\* The loop of lines 64-103 over the sorted markers, from marker i on.
RECURSIVE TransitionLoop(_, _, _, _, _)
TransitionLoop(allObjs, actorToRoom, actorObjList, i, built) ==
    IF i > Len(actorObjList) THEN [status |-> "ok", entries |-> built]
    ELSE LET obj == actorObjList[i] IN
         IF ~IsExported(obj) THEN TransitionLoop(allObjs, actorToRoom, actorObjList, i + 1, built)
         ELSE IF obj.isRoomTransition
              THEN IF obj.fromRoom = None \/ obj.toRoom = None
                   THEN Raise("PluginError", "ERROR: Missing room empty object assigned to transition.")
                   ELSE TransitionLoop(allObjs, actorToRoom, actorObjList, i + 1,
                            Append(built, NewTransitionActor(obj,
                                ObjNamed(allObjs, Get(obj.fromRoom)).roomIndex,
                                ObjNamed(allObjs, Get(obj.toRoom)).roomIndex)))
         ELSE LET roomIndex == GetItem(actorToRoom, obj.name).roomIndex IN
              TransitionLoop(allObjs, actorToRoom, actorObjList, i + 1,
                  Append(built, NewTransitionActor(obj, roomIndex, roomIndex)))

\* SceneTransitionActors.new(name, sceneObj, transform, headerIndex)
SceneTransitionActors_new(sceneObj_children) ==
    LET roomObjList == getObjectList(sceneObj_children, "EMPTY", "Room")
        actorToRoom == ActorToRoomFrom(sceneObj_children, roomObjList, 1, <<>>)
        actorObjList == getObjectList(sceneObj_children, "EMPTY", "Transition Actor")
    IN  IF \E i \in 1..Len(actorObjList) : ~InDict(actorToRoom, actorObjList[i].name)
        THEN Raise("KeyError", "")   \* line 61: the sort key of a marker under no room
        ELSE TransitionLoop(sceneObj_children, actorToRoom,
                            SortByRoomIndex(actorObjList, actorToRoom), 1, <<>>)

TransitionInit ==
    /\ op = "SceneTransitionActors.new"
    /\ children_recursive \in {rooms \o actors : rooms \in RoomLayouts, actors \in TransitionLists}
    /\ table = Pending
    /\ entries = <<>> /\ source = <<>> /\ raw_data = <<>>
    /\ not_zapd_assets = FALSE /\ parsed = Pending

TransitionNew ==
    /\ op = "SceneTransitionActors.new"
    /\ table = Pending
    /\ table' = SceneTransitionActors_new(children_recursive)
    /\ UNCHANGED <<op, children_recursive, entries, source, raw_data, not_zapd_assets, parsed>>

(***************************************************************************)
(* str operations, on sequences of atoms                                   *)
(***************************************************************************)
StartsWith(s, prefix) ==
    Len(s) >= Len(prefix) /\ SubSeq(s, 1, Len(prefix)) = prefix

\* s.removeprefix(prefix)
removeprefix(s, prefix) ==
    IF StartsWith(s, prefix) THEN SubSeq(s, Len(prefix) + 1, Len(s)) ELSE s

\* s.removesuffix(suffix)
removesuffix(s, suffix) ==
    IF Len(s) >= Len(suffix) /\ SubSeq(s, Len(s) - Len(suffix) + 1, Len(s)) = suffix
    THEN SubSeq(s, 1, Len(s) - Len(suffix)) ELSE s

\* s.split(sep) from atom i on, `piece` being the text since the last separator
RECURSIVE SplitFrom(_, _, _, _)
SplitFrom(s, sep, i, piece) ==
    IF i > Len(s) THEN <<piece>>
    ELSE IF StartsWith(SubSeq(s, i, Len(s)), sep)
         THEN <<piece>> \o SplitFrom(s, sep, i + Len(sep), <<>>)
         ELSE SplitFrom(s, sep, i + 1, Append(piece, s[i]))

\* s.split(sep)
split(s, sep) == SplitFrom(s, sep, 1, <<>>)

\* s.replace(atom, "")
replace(s, atom) == SelectSeq(s, LAMBDA a : a # atom)

\* The str that a sequence of tokens spells.
RECURSIVE Str(_)
Str(s) == IF s = <<>> THEN "" ELSE s[1] \o Str(Tail(s))

\* sep.join(pieces)
RECURSIVE join(_, _)
join(sep, pieces) ==
    IF pieces = <<>> THEN <<>>
    ELSE IF Len(pieces) = 1 THEN pieces[1]
    ELSE pieces[1] \o sep \o join(sep, Tail(pieces))

\* The integers whose decimal literals occur in the texts considered.
DecimalInts == (0 - MaxTransitions - MaxRoomIndex)..(MaxTransitions + MaxRoomIndex)

\* hexOrDecInt(value) of a str: the integer that a decimal literal denotes;
\* CanInt tells whether value is one (int(value) raises ValueError otherwise).
CanInt(value) == \E n \in DecimalInts : ToString(n) = value
hexOrDecInt(value) == CHOOSE n \in DecimalInts : ToString(n) = value

\* getEvalParams(expr), for the binary-angle expressions that occur
BinangValues ==
    [expr \in {"DEG_TO_BINANG(90.000)", "DEG_TO_BINANG(180.000)"} |->
        IF expr = "DEG_TO_BINANG(90.000)" THEN "0x4000" ELSE "0x8000"]
getEvalParams(expr) == BinangValues[expr]

(***************************************************************************)
(* SceneTransitionActors.from_data                                         *)
(***************************************************************************)
\* list.remove(x): the list without the first element equal to x
RECURSIVE remove(_, _)
remove(list, x) ==
    IF list = <<>> THEN <<>>
    ELSE IF list[1] = x THEN Tail(list)
    ELSE <<list[1]>> \o remove(Tail(list), x)

\* The loop of lines 122-124, the iterator being at index k (from 1): the list is
\* changed while it is iterated, so that the element after a removed one is skipped.
RECURSIVE DropEmptyParams(_, _)
DropEmptyParams(params, k) ==
    IF k > Len(params) THEN params
    ELSE IF params[k] = <<>> THEN DropEmptyParams(remove(params, <<>>), k + 1)
    ELSE DropEmptyParams(params, k + 1)

\* Lines 119-137: the TransitionActor of one entry of the text
ParseEntry(entry) ==
    LET params == DropEmptyParams(split(replace(replace(entry, "{"), "}"), <<",">>), 1)
        p == [i \in 1..Len(params) |-> Str(params[i])]
    IN  IF Len(params) # 10 THEN Raise("AssertionError", "")
        ELSE IF \E i \in {1, 3, 6, 7, 8} : ~CanInt(p[i]) THEN Raise("ValueError", "")
        ELSE [status |-> "ok",
              actor |-> [name |-> "(unset)", id |-> p[5],
                         pos |-> <<hexOrDecInt(p[6]), hexOrDecInt(p[7]), hexOrDecInt(p[8])>>,
                         rot |-> IF p[9] \in DOMAIN BinangValues THEN getEvalParams(p[9]) ELSE p[9],
                         params |-> p[10],
                         roomFrom |-> Some(hexOrDecInt(p[1])), roomTo |-> Some(hexOrDecInt(p[3])),
                         isRoomTransition |-> Some(hexOrDecInt(p[1]) # hexOrDecInt(p[3])),
                         cameraFront |-> p[2], cameraBack |-> p[4]]]

\* The loop of lines 115-138 over the entries of the text, from entry i on
RECURSIVE ParseEntries(_, _, _)
ParseEntries(textEntries, i, actor_list) ==
    IF i > Len(textEntries) THEN [status |-> "ok", entries |-> actor_list]
    ELSE IF textEntries[i] = <<>> THEN ParseEntries(textEntries, i + 1, actor_list)
    ELSE LET r == ParseEntry(textEntries[i]) IN
         IF r.status = "error" THEN r
         ELSE ParseEntries(textEntries, i + 1, Append(actor_list, r.actor))

\* Lines 110-113: the entries of the text
SplitEntries(data, notZapd) ==
    IF notZapd
    THEN split(removesuffix(removeprefix(data, <<"{">>), <<",", "}", ",">>), <<",", "}", ",", "{">>)
    ELSE split(data, <<"}", ",">>)

\* SceneTransitionActors.from_data(raw_data, not_zapd_assets)
from_data(data, notZapd) == ParseEntries(SplitEntries(data, notZapd), 1, <<>>)

(***************************************************************************)
(* TransitionActor.getEntryC, SceneTransitionActors.getC                   *)
(***************************************************************************)
indent == "    "

\* f"{value}" of an Optional[int]
FormatInt(value) == IF value = None THEN "None" ELSE ToString(Get(value))

\* The descriptions of line 34, each padded to 30 characters by {desc:30}; a comma
\* of a description is an atom like any other comma of the text.
infoDescs ==
    << <<"Room & Cam Index (Front", ",", " Back)">>,
       <<"Actor ID                      ">>,
       <<"Position                      ">>,
       <<"Rotation Y                    ">>,
       <<"Parameters                    ">> >>

\* TransitionActor.getEntryC(self)
getEntryC(self) ==
    LET sides == << <<FormatInt(self.roomFrom), ",", " ", self.cameraFront>>,
                    <<FormatInt(self.roomTo), ",", " ", self.cameraBack>> >>
        roomData == <<"{", " ">> \o join(<<",", " ">>, sides) \o <<" ", "}">>
        posData == <<"{", " ">>
                   \o join(<<",", " ">>, [i \in 1..Len(self.pos) |-> <<ToString(self.pos[i])>>])
                   \o <<" ", "}">>
        actorInfos == <<roomData, <<self.id>>, posData, <<self.rot>>, <<self.params>>>>
        lines == [i \in 1..Len(infoDescs) |->
                     <<indent, indent, "/*", " ">> \o infoDescs[i] \o <<" ", "*/", " ">>
                     \o actorInfos[i]]
    IN  (IF self.name # "" THEN <<indent, "//", " ", self.name, "\n", indent>> ELSE <<>>)
        \o <<"{", "\n">>
        \o join(<<",", "\n">>, lines)
        \o <<"\n", indent, "}", ",", "\n">>

\* The text before and after the entries in getC().source (line 158)
SourceHead == <<"TransitionActorEntry", " ", "sceneTransitionActorList", "[", "]", " ", "=", " ", "{", "\n">>
SourceTail == <<"}", ";", "\n", "\n">>

\* SceneTransitionActors.getC(self).source
getC(self_entries) ==
    SourceHead
    \o join(<<"\n">>, [i \in 1..Len(self_entries) |-> getEntryC(self_entries[i])])
    \o SourceTail

\* The rows of an emitted array, as an importer hands them to from_data: the text
\* between the array's braces, without its comments and its whitespace.
InComment(text, i) ==
    \E j \in 1..i :
        \/ text[j] = "//" /\ \A k \in j..(i - 1) : text[k] # "\n"
        \/ text[j] = "/*" /\ \A k \in j..(i - 1) : text[k] # "*/"

RECURSIVE Stripped(_, _, _)
Stripped(text, lo, hi) ==
    IF lo > hi THEN <<>>
    ELSE IF lo = hi
         THEN IF text[lo] \in {" ", "\n", indent} \/ InComment(text, lo) THEN <<>> ELSE <<text[lo]>>
    ELSE LET mid == (lo + hi) \div 2
         IN  Stripped(text, lo, mid) \o Stripped(text, mid + 1, hi)

RowsOf(text) ==
    LET body == SubSeq(text, Len(SourceHead) + 1, Len(text) - Len(SourceTail))
    IN  Stripped(body, 1, Len(body))

(***************************************************************************)
(* The calls of the serializer and of the parser                           *)
(***************************************************************************)
\* The TransitionActor entries of a table that is serialized
TableEntries ==
    [name : {"", "Door"}, id : {"ACTOR_EN_DOOR"},
     pos : {<<k, 0, 0 - k>> : k \in 1..MaxTransitions},
     rot : {"DEG_TO_BINANG(90.000)"}, params : {"0x003F"},
     isRoomTransition : {None},
     roomFrom : {Some(k) : k \in RoomIndices}, cameraFront : {"0xFF"},
     roomTo : {Some(k) : k \in RoomIndices}, cameraBack : {"0xFF"}]

RoundTripInit ==
    /\ op = "getC"
    /\ entries \in SeqsUpTo(TableEntries, MaxEntries)
    /\ not_zapd_assets \in BOOLEAN
    /\ children_recursive = <<>> /\ table = Pending
    /\ source = <<>> /\ raw_data = <<>> /\ parsed = Pending

\* One row of text: "{", its fields joined by commas, "},". A field is empty or
\* the literal 1, which every position of a row accepts.
RowTexts ==
    {<<"{">> \o join(<<",">>, fields) \o <<"}", ",">> :
        fields \in UNION {[1..n -> {<<>>, <<"1">>}] : n \in 1..MaxFields}}

FromDataInit ==
    /\ op = "from_data"
    /\ raw_data \in RowTexts
    /\ not_zapd_assets \in BOOLEAN
    /\ children_recursive = <<>> /\ table = Pending
    /\ entries = <<>> /\ source = <<>> /\ parsed = Pending

GetC ==
    /\ op = "getC"
    /\ source' = getC(entries)
    /\ op' = "import"
    /\ UNCHANGED <<children_recursive, table, entries, raw_data, not_zapd_assets, parsed>>

ImportRows ==
    /\ op = "import"
    /\ raw_data' = RowsOf(source)
    /\ op' = "from_data"
    /\ UNCHANGED <<children_recursive, table, entries, source, not_zapd_assets, parsed>>

FromData ==
    /\ op = "from_data"
    /\ parsed' = from_data(raw_data, not_zapd_assets)
    /\ op' = "returned"
    /\ UNCHANGED <<children_recursive, table, entries, source, raw_data, not_zapd_assets>>

EntranceNext == EntranceNew

SpecEntrance == EntranceInit /\ [][EntranceNext]_vars

TransitionNext == TransitionNew

SpecTransition == TransitionInit /\ [][TransitionNext]_vars

BuildersNext == EntranceNew \/ TransitionNew

SpecBuilders == (EntranceInit \/ TransitionInit) /\ [][BuildersNext]_vars

FromDataNext == FromData

SpecFromData == FromDataInit /\ [][FromDataNext]_vars

RoundTripNext == GetC \/ ImportRows \/ FromData

SpecRoundTrip == RoundTripInit /\ [][RoundTripNext]_vars

(***************************************************************************)
(* Properties of SceneEntranceActors.new                                   *)
(***************************************************************************)
Min(S) == CHOOSE x \in S : \A y \in S : x <= y

EntranceDone == op = "SceneEntranceActors.new" /\ table # Pending

\* The entrance markers that pass the header check and the non-"None" check
Collected ==
    {i \in 1..Len(children_recursive) :
        /\ children_recursive[i].ootEmptyType = "Entrance"
        /\ children_recursive[i].headerValid
        /\ children_recursive[i].actor_id # "None"}

CollectedSpawns == {children_recursive[i].spawnIndex : i \in Collected}

\* The collected markers without a tied room
Untied == {i \in Collected : children_recursive[i].tiedRoom = None}

\* The collected markers that declare the spawn index of an earlier collected marker
Repeats ==
    {j \in Collected : \E i \in Collected :
        i < j /\ children_recursive[i].spawnIndex = children_recursive[j].spawnIndex}

MissingTiedRoom == "ERROR: Missing room empty object assigned to the entrance."
NotConsecutive == "ERROR: The spawn indices are not consecutive!"
RepeatedSpawn(i) == "ERROR: Repeated Spawn Index: " \o ToString(children_recursive[i].spawnIndex)

\* C1: whenever the spawn indices of the collected entrance markers are not exactly
\* {0, ..., N-1}, N being the number of collected markers, SceneEntranceActors.new
\* raises an error and returns no table.
C1_NonContiguousFails ==
    (EntranceDone /\ CollectedSpawns # 0..(Cardinality(Collected) - 1))
        => table.status = "error"

\* C1 witness: two tied markers with the spawn indices 0 and 2 are rejected by the
\* final contiguity check.
C1_Witness ==
    /\ EntranceDone
    /\ Cardinality(Collected) = 2 /\ CollectedSpawns = {0, 2} /\ Untied = {}
    /\ table.status = "error" /\ table.error = NotConsecutive

\* C2: when the collected markers all have a tied room and their spawn indices are
\* exactly {0, ..., N-1}, in whatever order the scene yields them, the build
\* succeeds with N entries, entries[i].spawnIndex = i, each entry with the room
\* index of the marker that declared that spawn index.
C2_ContiguousSucceedsInOrder ==
    (/\ EntranceDone
     /\ Untied = {}
     /\ CollectedSpawns = 0..(Cardinality(Collected) - 1))
        => /\ table.status = "ok"
           /\ Len(table.entries) = Cardinality(Collected)
           /\ \A i \in 1..Len(table.entries) :
                /\ table.entries[i].spawnIndex = i - 1
                /\ \E m \in Collected :
                     /\ children_recursive[m].spawnIndex = i - 1
                     /\ table.entries[i].roomIndex
                            = Get(children_recursive[m].tiedRoom).roomIndex

\* C2 witness: three markers yielded in the order 2, 0, 1 of their spawn indices,
\* tied to rooms of different indices, and built.
C2_Witness ==
    /\ EntranceDone /\ table.status = "ok"
    /\ Len(children_recursive) = 3 /\ Collected = {1, 2, 3}
    /\ children_recursive[1].spawnIndex = 2
    /\ children_recursive[2].spawnIndex = 0
    /\ children_recursive[3].spawnIndex = 1
    /\ Get(children_recursive[1].tiedRoom).roomIndex # Get(children_recursive[2].tiedRoom).roomIndex

\* C3 as stated: when two collected markers declare the same spawn index, the build
\* fails with the repeated-spawn-index error, raised when the second of them is
\* processed, and never with the contiguity error.
C3_RepeatedErrorAtSecond ==
    (EntranceDone /\ Repeats # {})
        => /\ table.status = "error"
           /\ table.error = RepeatedSpawn(Min(Repeats))
           /\ table.at = Min(Repeats)
           /\ table.error # NotConsecutive

\* C3 amended: when two collected markers declare the same spawn index, the build
\* fails inside the loop over the markers, before the final sort and the
\* contiguity check: with the repeated-spawn-index error, raised when the second
\* of them is processed, if every collected marker up to and including that one has
\* a tied room, and otherwise with the missing-room error of the first collected
\* marker without a tied room. The contiguity error is never the one reported.
C3_DuplicateFailsInLoop ==
    (EntranceDone /\ Repeats # {})
        => /\ table.status = "error"
           /\ table.at <= Len(children_recursive)
           /\ table.error # NotConsecutive
           /\ IF \A k \in Untied : k > Min(Repeats)
              THEN table.error = RepeatedSpawn(Min(Repeats)) /\ table.at = Min(Repeats)
              ELSE table.error = MissingTiedRoom /\ table.at = Min(Untied)

\* C3 witness: two tied markers that both declare spawn index 1 (so that the spawn
\* indices are not contiguous either); the repeated-spawn-index error is raised at
\* the second.
C3_Witness ==
    /\ EntranceDone
    /\ Collected = {1, 2} /\ Untied = {} /\ CollectedSpawns = {1}
    /\ table.status = "error" /\ table.at = 2
    /\ table.error = "ERROR: Repeated Spawn Index: 1"

(***************************************************************************)
(* Properties of SceneTransitionActors.from_data and of the round trip     *)
(***************************************************************************)
\* The comma-separated fields of the row of text handed to from_data
RowFields == split(SubSeq(raw_data, 2, Len(raw_data) - 2), <<",">>)

\* A row's fields without its trailing empty fields
WithoutTrailingEmpty(fields) ==
    LET nonEmpty == {i \in 1..Len(fields) : fields[i] # <<>>}
    IN  SubSeq(fields, 1, IF nonEmpty = {} THEN 0
                          ELSE CHOOSE i \in nonEmpty : \A j \in nonEmpty : j <= i)

\* C4: from_data raises an error for every row (a text with a non-empty field)
\* that, its trailing empty fields dropped, does not have exactly 10
\* comma-separated fields; no row is accepted by removing an empty field that is
\* not trailing.
C4_WrongFieldCountRaises ==
    (/\ op = "returned" /\ source = <<>>
     /\ WithoutTrailingEmpty(RowFields) # <<>>
     /\ Len(WithoutTrailingEmpty(RowFields)) # 10)
        => parsed.status = "error"

\* Whether a parse result gives back the entries that were serialized: as many
\* entries, in the same order, each with the id, pos, roomFrom, roomTo,
\* cameraFront, cameraBack and params of the original, isRoomTransition telling
\* whether the two rooms differ, and the name "(unset)".
GivesBack(result, original) ==
    /\ result.status = "ok"
    /\ Len(result.entries) = Len(original)
    /\ \A i \in 1..Len(original) :
         LET got == result.entries[i]
             was == original[i]
         IN  /\ got.id = was.id /\ got.pos = was.pos
             /\ got.roomFrom = was.roomFrom /\ got.roomTo = was.roomTo
             /\ got.cameraFront = was.cameraFront /\ got.cameraBack = was.cameraBack
             /\ got.params = was.params
             /\ got.isRoomTransition = Some(was.roomFrom # was.roomTo)
             /\ got.name = "(unset)"

\* C5: the rows that getC emits for a list of entries, their comments and
\* whitespace removed, are parsed by from_data (under one of its two row
\* conventions at least) into the entries that were serialized.
C5_RoundTrip ==
    (op = "returned" /\ source # <<>>)
        => \E convention \in BOOLEAN : GivesBack(from_data(raw_data, convention), entries)

(***************************************************************************)
(* Properties of SceneTransitionActors.new                                 *)
(***************************************************************************)
TransitionDone == op = "SceneTransitionActors.new" /\ table # Pending

\* The transition markers of the scene, and those that pass the header check and
\* the non-"None" check
TransitionMarkers ==
    {i \in 1..Len(children_recursive) :
        children_recursive[i].ootEmptyType = "Transition Actor"}

ExportedTransitions ==
    {i \in TransitionMarkers :
        children_recursive[i].headerValid /\ children_recursive[i].actor_id # "None"}

\* The owning room of an object: the nearest room container above it, if any
RECURSIVE OwningRoom(_)
OwningRoom(obj) ==
    IF obj.parent = "Scene" THEN None
    ELSE LET above == ObjNamed(children_recursive, obj.parent) IN
         IF above.ootEmptyType = "Room" THEN Some(above) ELSE OwningRoom(above)

\* The markers from which an entry of the table can have been built
SourcesOf(entry) ==
    {i \in ExportedTransitions : children_recursive[i].pos = entry.pos}

\* C6: in a built table, every entry of a marker that is not flagged as
\* room-crossing has roomFrom = roomTo = the room index of the marker's owning
\* room and isRoomTransition = false; every entry whose isRoomTransition is false
\* has roomFrom = roomTo.
C6_SameRoomEntries ==
    (TransitionDone /\ table.status = "ok")
        => \A k \in 1..Len(table.entries) :
             LET entry == table.entries[k] IN
             /\ \A i \in SourcesOf(entry) :
                  LET obj == children_recursive[i] IN
                  ~obj.isRoomTransition
                      => /\ OwningRoom(obj) # None
                         /\ entry.roomFrom = Some(Get(OwningRoom(obj)).roomIndex)
                         /\ entry.roomTo = entry.roomFrom
                         /\ entry.isRoomTransition = Some(FALSE)
             /\ entry.isRoomTransition = Some(FALSE) => entry.roomFrom = entry.roomTo

\* The exported markers flagged as room-crossing whose "from" or "to" room is unset
UnsetCrossings ==
    {i \in ExportedTransitions :
        /\ children_recursive[i].isRoomTransition
        /\ children_recursive[i].fromRoom = None \/ children_recursive[i].toRoom = None}

\* C7: if an exported marker is flagged as room-crossing and its "from" or "to" room
\* is unset, the build fails with the configuration error (a PluginError) and
\* returns no table; no returned table has an entry whose roomFrom or roomTo is
\* unset.
C7_UnsetRoomIsConfigurationError ==
    TransitionDone
        => /\ UnsetCrossings # {}
                => table.status = "error" /\ table.exception = "PluginError"
           /\ table.status = "ok"
                => \A k \in 1..Len(table.entries) :
                     table.entries[k].roomFrom # None /\ table.entries[k].roomTo # None

\* The scene without the markers that the soft skip conditions exclude
WithoutSkipped ==
    SelectSeq(children_recursive,
              LAMBDA o : o.ootEmptyType = "Room" \/ (o.headerValid /\ o.actor_id # "None"))

\* What a caller observes of a build: the table's entries, or the error
Outcome(result) ==
    IF result.status = "ok" THEN [status |-> "ok", entries |-> result.entries]
    ELSE [status |-> "error", exception |-> result.exception, error |-> result.error]

\* C8: a marker that a soft skip condition excludes never makes a build fail: the
\* outcome of either builder is that of the same scene without the skipped
\* markers.
C8_SkippedMarkersAreInert ==
    /\ EntranceDone
         => Outcome(table) = Outcome(SceneEntranceActors_new(WithoutSkipped))
    /\ TransitionDone
         => Outcome(table) = Outcome(SceneTransitionActors_new(WithoutSkipped))

\* C9: the entries of a built table are the exported markers, one entry per
\* marker, in non-decreasing order of the room index of each marker's owning room.
C9_SortedByOwningRoom ==
    (TransitionDone /\ table.status = "ok")
        => /\ Len(table.entries) = Cardinality(ExportedTransitions)
           /\ \A i \in ExportedTransitions :
                \E k \in 1..Len(table.entries) : i \in SourcesOf(table.entries[k])
           /\ \A k, l \in 1..Len(table.entries) :
                k < l => \A i \in SourcesOf(table.entries[k]), j \in SourcesOf(table.entries[l]) :
                           /\ OwningRoom(children_recursive[i]) # None
                           /\ OwningRoom(children_recursive[j]) # None
                           /\ Get(OwningRoom(children_recursive[i])).roomIndex
                                <= Get(OwningRoom(children_recursive[j])).roomIndex

\* The orders in which a traversal can yield the objects of the scene
TraversalOrders ==
    {[i \in 1..Len(children_recursive) |-> children_recursive[order[i]]] :
        order \in Permutations(1..Len(children_recursive))}

\* C10: the outcome of a build does not depend on the order in which the scene
\* graph yields its objects: SceneTransitionActors.new returns the same entries
\* for every order, and SceneEntranceActors.new returns the same entries or fails
\* for every order.
C10_TraversalOrderUnobservable ==
    /\ TransitionDone
         => \A objs \in TraversalOrders :
              LET other == SceneTransitionActors_new(objs) IN
              /\ other.status = table.status
              /\ table.status = "ok" => other.entries = table.entries
    /\ EntranceDone
         => \A objs \in TraversalOrders :
              LET other == SceneEntranceActors_new(objs) IN
              /\ other.status = table.status
              /\ table.status = "ok" => other.entries = table.entries

====
